---- MODULE Spec2Model ----
(***************************************************************************)
(* The "hard" backend's resilient reader (hardReader), the option          *)
(* derivation it uses on every (re)open (appendSeekOption) and the         *)
(* Object.Open facade that constructs it.                                  *)
(*                                                                         *)
(* The object holds ObjSize bytes; the byte at absolute position k has the  *)
(* value k, so a sequence of delivered bytes is a sequence of positions.   *)
(* The wrapped remote object is the environment: its Open and the Read and *)
(* Close of the streams it hands out may fail.                             *)
(***************************************************************************)
EXTENDS Integers, Sequences, FiniteSets, TLC

\* ------------------------------------------------------------------ bounds

ObjSize == 3      \* o.Size(): the number of bytes of the object
MaxBuf == 2       \* the largest len(p) a caller passes to Read
MaxFail == 2      \* transient failures the remote may inject while it is up
MaxDirs == 2      \* the most options a caller passes to Object.Open
MaxCount == 3     \* the per-call counters of remote calls saturate here

\* --------------------------------------------------------------- constants

Unbounded == -1   \* the limit of a reader that reads to the end

NoErr == "nil"
EOF == "io.EOF"
ErrorFileClosed == "ErrorFileClosed"
ErrRemote == "remote error"

Min(a, b) == IF a <= b THEN a ELSE b
Max(a, b) == IF a >= b THEN a ELSE b

\* The bytes of the object at the absolute positions lo .. hi-1 that exist.
Bytes(lo, hi) == [i \in 1..Max(0, Min(hi, ObjSize) - Min(lo, ObjSize)) |-> Min(lo, ObjSize) + i - 1]

\* ----------------------------------------------------------------- options

SeekOption(off) == <<"SeekOption", off>>
RangeOption(start, end) == <<"RangeOption", start, end>>
OtherOption(k) == <<"Other", k>>

Positions == 0..ObjSize
Directives ==
    {SeekOption(off) : off \in Positions}
        \cup {RangeOption(s, e) : s \in Positions, e \in 0..(ObjSize + 1)}
        \cup {OtherOption(k) : k \in 1..2}
DirectiveLists == UNION {[1..n -> Directives] : n \in 0..MaxDirs}

\* fs.RangeOption.Decode as the facade uses it: the (offset, limit) of a range.
Decode(x, size) == <<x[2], x[3]>>

\* The byte window [lo, hi) of the stream the remote opens for a list of
\* options: the last seek or range option decides, any other option is opaque.
RECURSIVE WindowOf(_)
WindowOf(opts) ==
    IF opts = <<>> THEN <<0, ObjSize>>
    ELSE LET x == opts[Len(opts)] IN
         IF x[1] = "SeekOption" THEN <<Min(x[2], ObjSize), ObjSize>>
         ELSE IF x[1] = "RangeOption"
              THEN <<Min(x[2], ObjSize), Max(Min(x[2], ObjSize), Min(x[3], ObjSize))>>
              ELSE WindowOf(SubSeq(opts, 1, Len(opts) - 1))

\* The passthrough options of Object.Open: all but the seek and range options.
RECURSIVE OpenOptions(_)
OpenOptions(dirs) ==
    IF dirs = <<>> THEN <<>>
    ELSE LET rest == OpenOptions(SubSeq(dirs, 1, Len(dirs) - 1))
             x == dirs[Len(dirs)]
         IN IF x[1] \in {"SeekOption", "RangeOption"} THEN rest ELSE Append(rest, x)

\* The (offset, limit) Object.Open derives, reading the options in order.
RECURSIVE OffsetLimit(_)
OffsetLimit(dirs) ==
    IF dirs = <<>> THEN <<0, Unbounded>>
    ELSE LET prev == OffsetLimit(SubSeq(dirs, 1, Len(dirs) - 1))
             x == dirs[Len(dirs)]
         IN IF x[1] = "SeekOption" THEN <<x[2], prev[2]>>
            ELSE IF x[1] = "RangeOption" THEN Decode(x, ObjSize)
            ELSE prev

\* appendSeekOption with the seek option added at offset 0 too.
appendSeekOptionSeekZero(options, offset, limit) ==
    IF limit = Unbounded
    THEN IF offset >= 0 THEN Append(options, SeekOption(offset)) ELSE options
    ELSE IF offset > 0 THEN Append(options, RangeOption(offset, limit)) ELSE options

\* appendSeekOption with the range option added at offset 0 too.
appendSeekOptionRangeZero(options, offset, limit) ==
    IF limit = Unbounded
    THEN IF offset > 0 THEN Append(options, SeekOption(offset)) ELSE options
    ELSE IF offset >= 0 THEN Append(options, RangeOption(offset, limit)) ELSE options

appendSeekOption(options, offset, limit) ==
    IF limit = Unbounded
    THEN IF offset > 0 THEN Append(options, SeekOption(offset)) ELSE options
    ELSE IF offset > 0 THEN Append(options, RangeOption(offset, limit)) ELSE options

\* ------------------------------------------------------------------- state

VARIABLES
    pc,          \* "new": no reader yet; "idle": between calls;
                 \* "loop": Read at the top of its for loop; "read": Read at r.rc.Read;
                 \* "panic": Read has called a method on a nil reference
    o,           \* hardReader.o: "obj" or "nil"
    rc,          \* hardReader.rc: "nil" or "live"
    options,     \* hardReader.options
    offset,      \* hardReader.offset
    limit,       \* hardReader.limit
    eofReached,  \* hardReader.eofReached
    closed,      \* hardReader.closed
    plen,        \* len(p) of the Read call in progress
    strm,        \* the remote stream behind the handle last opened: <<next position, end>>
    sent,        \* the options handed to the remote on the last open attempt
    net,         \* the remote calls made by the call in progress (or the last call)
    ret,         \* what the last call that returned gave its caller
    relErr,      \* what the last release of a handle reported
    delivered,   \* the bytes Read calls have returned so far, in order
    offset0,     \* the offset the reader was constructed with
    budget,      \* transient failures the remote may still inject
    down,        \* "none", or the way the remote has failed for good: "open", "read"
    opened,      \* the handles r.o.Open has handed out over the reader's life
    released,    \* the handles whose Close has been called over the reader's life
    readErrs     \* the r.rc.Read calls that returned an error other than io.EOF

vars == <<pc, o, rc, options, offset, limit, eofReached, closed, plen, strm, sent,
          net, ret, relErr, delivered, offset0, budget, down,
          opened, released, readErrs>>

reader == <<o, rc, options, offset, limit, eofReached, closed>>
remote == <<strm, sent, relErr, budget, down, opened, released, readErrs>>

NoCalls == [open |-> 0, read |-> 0, close |-> 0]
Bump(c) == Min(c + 1, MaxCount)

\* The counters over the reader's life are exact below MaxHandles: while the
\* remote is up a reader opens at most MaxFail + 1 handles.
MaxHandles == MaxFail + 2
CountUp(c) == Min(c + 1, MaxHandles)
Returned(op, n, err) == [op |-> op, n |-> n, err |-> err]

Init ==
    /\ pc = "new"
    /\ o = "nil" /\ rc = "nil" /\ options = <<>>
    /\ offset = 0 /\ limit = Unbounded
    /\ eofReached = FALSE /\ closed = FALSE
    /\ plen = 0
    /\ strm = <<0, 0>>
    /\ sent = <<>>
    /\ net = NoCalls
    /\ ret = Returned("none", 0, NoErr)
    /\ relErr = NoErr
    /\ delivered = <<>>
    /\ offset0 = 0
    /\ budget = MaxFail
    /\ down = "none"
    /\ opened = 0 /\ released = 0 /\ readErrs = 0

\* ------------------------------------------------------------- Object.Open

\* Object.Open opening the remote stream itself, before any Read.
OpenEager(dirs) ==
    /\ pc' = "idle"
    /\ o' = "obj"
    /\ rc' = "live"
    /\ options' = OpenOptions(dirs)
    /\ offset' = OffsetLimit(dirs)[1]
    /\ limit' = OffsetLimit(dirs)[2]
    /\ offset0' = OffsetLimit(dirs)[1]
    /\ eofReached' = FALSE
    /\ closed' = FALSE
    /\ sent' = appendSeekOption(OpenOptions(dirs), OffsetLimit(dirs)[1], OffsetLimit(dirs)[2])
    /\ strm' = WindowOf(appendSeekOption(OpenOptions(dirs), OffsetLimit(dirs)[1], OffsetLimit(dirs)[2]))
    /\ net' = [NoCalls EXCEPT !.open = 1]
    /\ ret' = Returned("Open", 0, NoErr)
    /\ opened' = CountUp(opened)
    /\ UNCHANGED <<plen, delivered, relErr, budget, down, released, readErrs>>

\* Object.Open with the options dirs: it constructs the reader and returns it.
Open(dirs) ==
    /\ pc' = "idle"
    /\ o' = "obj"
    /\ rc' = "nil"
    /\ options' = OpenOptions(dirs)
    /\ offset' = OffsetLimit(dirs)[1]
    /\ limit' = OffsetLimit(dirs)[2]
    /\ offset0' = OffsetLimit(dirs)[1]
    /\ eofReached' = FALSE
    /\ closed' = FALSE
    /\ net' = NoCalls
    /\ ret' = Returned("Open", 0, NoErr)
    /\ UNCHANGED <<plen, delivered, remote>>

\* The caller opens the object once, with any list of options.
CallOpen ==
    /\ pc = "new"
    /\ \E dirs \in DirectiveLists : Open(dirs)

\* --------------------------------------------------------- hardReader.Read

\* The entry test with < for <=.
WindowExhaustedStrict(off, lim) == lim # Unbounded /\ lim < off

\* A call returns to its caller.
Return(op, n, err) ==
    /\ pc' = "idle"
    /\ plen' = 0
    /\ ret' = Returned(op, n, err)

\* The declared range is used up (the test on entry to Read).
WindowExhausted(off, lim) == lim # Unbounded /\ lim <= off


\* The loop opening a stream on every pass, whether or not it holds one.
NeedsOpenAlways == TRUE

\* The test at the top of the for loop: an open is made only with no handle held.
NeedsOpen == rc = "nil"

\* Read with the test of closed made after the test of the window.
ReadClosedLast(L) ==
    /\ pc = "idle"
    /\ net' = NoCalls
    /\ IF eofReached
       THEN /\ Return("Read", 0, EOF)
            /\ UNCHANGED eofReached
       ELSE IF WindowExhausted(offset, limit)
       THEN /\ eofReached' = TRUE
            /\ Return("Read", 0, EOF)
       ELSE IF closed
       THEN /\ Return("Read", 0, ErrorFileClosed)
            /\ UNCHANGED eofReached
       ELSE /\ pc' = (IF NeedsOpen THEN "loop" ELSE "read")
            /\ plen' = L
            /\ UNCHANGED <<eofReached, ret>>
    /\ UNCHANGED <<o, rc, options, offset, limit, closed, delivered, offset0, remote>>

\* Entry to Read with a buffer of L bytes: the three tests made before any
\* I/O, then the for loop (at the open when no handle is held, else at the read).
Read(L) ==
    /\ pc = "idle"
    /\ net' = NoCalls
    /\ IF closed
       THEN /\ Return("Read", 0, ErrorFileClosed)
            /\ UNCHANGED eofReached
       ELSE IF eofReached
       THEN /\ Return("Read", 0, EOF)
            /\ UNCHANGED eofReached
       ELSE IF WindowExhausted(offset, limit)
       THEN /\ eofReached' = TRUE
            /\ Return("Read", 0, EOF)
       ELSE /\ pc' = (IF NeedsOpen THEN "loop" ELSE "read")
            /\ plen' = L
            /\ UNCHANGED <<eofReached, ret>>
    /\ UNCHANGED <<o, rc, options, offset, limit, closed, delivered, offset0, remote>>

\* The open error handed to the caller instead of retried.
OnOpenErrorSurfaced ==
    /\ rc' = "nil"
    /\ Return("Read", 0, ErrRemote)

\* The loop testing closed again after a failed open.
OnOpenErrorChecksClosed ==
    /\ rc' = "nil"
    /\ IF closed
       THEN Return("Read", 0, ErrorFileClosed)
       ELSE /\ pc' = "loop"
            /\ UNCHANGED <<plen, ret>>

\* r.o.Open failed: the handle is cleared and the loop goes round again.
OnOpenError ==
    /\ rc' = "nil"
    /\ pc' = "loop"
    /\ UNCHANGED <<plen, ret>>

\* r.o.Open succeeded: the loop goes on to r.rc.Read.
OnOpenOk ==
    /\ rc' = "live"
    /\ pc' = "read"
    /\ UNCHANGED <<plen, ret>>

\* The options of an open derived from the offset of construction.
newOptsStale == appendSeekOption(options, offset0, limit)

\* The options of the next open: the passthrough options, then the directive
\* derived from the offset of this moment and the limit.
newOpts == appendSeekOption(options, offset, limit)

\* The open with its directive appended to the stored slice itself.
optionsAfterOpenAliased == appendSeekOption(options, offset, limit)

\* r.options after an open: newOpts is a fresh slice, the stored one is left alone.
optionsAfterOpen == options

\* The open of the for loop, failing.
LoopOpenFail ==
    /\ pc = "loop" /\ NeedsOpen
    /\ down = "open" \/ (down = "none" /\ budget > 0)
    /\ sent' = newOpts
    /\ net' = [net EXCEPT !.open = Bump(@)]
    /\ budget' = (IF down = "none" THEN budget - 1 ELSE budget)
    /\ OnOpenError
    /\ options' = optionsAfterOpen
    /\ UNCHANGED <<o, offset, limit, eofReached, closed, strm, relErr,
                   delivered, offset0, down, opened, released, readErrs>>

\* The open of the for loop, succeeding: the remote hands out a new stream.
LoopOpenOk ==
    /\ pc = "loop" /\ NeedsOpen
    /\ down # "open"
    /\ sent' = newOpts
    /\ strm' = WindowOf(newOpts)
    /\ net' = [net EXCEPT !.open = Bump(@)]
    /\ OnOpenOk
    /\ options' = optionsAfterOpen
    /\ opened' = CountUp(opened)
    /\ UNCHANGED <<o, offset, limit, eofReached, closed, relErr,
                   delivered, offset0, budget, down, released, readErrs>>

\* The bytes still to come on the live stream.
Remaining == strm[2] - strm[1]

\* The byte count assigned to the offset instead of added to it.
OnReadOkAssign(n) ==
    /\ offset' = n
    /\ delivered' = delivered \o Bytes(strm[1], strm[1] + n)
    /\ Return("Read", n, NoErr)
    /\ UNCHANGED <<rc, eofReached>>

\* r.rc.Read returned (n, nil).
OnReadOk(n) ==
    /\ offset' = offset + n
    /\ delivered' = delivered \o Bytes(strm[1], strm[1] + n)
    /\ Return("Read", n, NoErr)
    /\ UNCHANGED <<rc, eofReached>>

\* End of data reported without the flag being set.
OnReadEOFNoFlag(n) ==
    /\ delivered' = delivered \o Bytes(strm[1], strm[1] + n)
    /\ Return("Read", n, EOF)
    /\ UNCHANGED <<rc, offset, eofReached>>

\* End of data handled as any other read error.
OnReadEOFAsError(n) ==
    /\ rc' = "nil"
    /\ IF n > 0
       THEN /\ offset' = offset + n
            /\ delivered' = delivered \o Bytes(strm[1], strm[1] + n)
            /\ Return("Read", n, NoErr)
       ELSE /\ pc' = "loop"
            /\ UNCHANGED <<offset, delivered, plen, ret>>
    /\ UNCHANGED eofReached

\* End of data with the handle dropped.
OnReadEOFDropsHandle(n) ==
    /\ eofReached' = TRUE
    /\ rc' = "nil"
    /\ delivered' = delivered \o Bytes(strm[1], strm[1] + n)
    /\ Return("Read", n, EOF)
    /\ UNCHANGED offset

\* r.rc.Read returned (n, io.EOF).
OnReadEOF(n) ==
    /\ eofReached' = TRUE
    /\ delivered' = delivered \o Bytes(strm[1], strm[1] + n)
    /\ Return("Read", n, EOF)
    /\ UNCHANGED <<rc, offset>>

\* A read error with no bytes handed to the caller instead of retried.
OnReadErrorSurfaced(n) ==
    /\ rc' = "nil"
    /\ IF n > 0
       THEN /\ offset' = offset + n
            /\ delivered' = delivered \o Bytes(strm[1], strm[1] + n)
            /\ Return("Read", n, NoErr)
       ELSE /\ Return("Read", 0, ErrRemote)
            /\ UNCHANGED <<offset, delivered>>
    /\ UNCHANGED eofReached

\* A read error whose bytes are returned without the offset being advanced.
OnReadErrorNoAdvance(n) ==
    /\ rc' = "nil"
    /\ IF n > 0
       THEN /\ delivered' = delivered \o Bytes(strm[1], strm[1] + n)
            /\ Return("Read", n, NoErr)
            /\ UNCHANGED offset
       ELSE /\ pc' = "loop"
            /\ UNCHANGED <<offset, delivered, plen, ret>>
    /\ UNCHANGED eofReached

\* A read error after which the failed handle is kept.
OnReadErrorKeepsHandle(n) ==
    /\ IF n > 0
       THEN /\ offset' = offset + n
            /\ delivered' = delivered \o Bytes(strm[1], strm[1] + n)
            /\ Return("Read", n, NoErr)
       ELSE /\ pc' = "loop"
            /\ UNCHANGED <<offset, delivered, plen, ret>>
    /\ UNCHANGED <<rc, eofReached>>

\* r.rc.Read returned (n, err) with another error.
OnReadError(n) ==
    /\ rc' = "nil"
    /\ IF n > 0
       THEN /\ offset' = offset + n
            /\ delivered' = delivered \o Bytes(strm[1], strm[1] + n)
            /\ Return("Read", n, NoErr)
       ELSE /\ pc' = "loop"
            /\ UNCHANGED <<offset, delivered, plen, ret>>
    /\ UNCHANGED eofReached

\* The read of the for loop: the stream delivers n >= 1 bytes.
LoopReadOk ==
    /\ pc = "read"
    /\ down # "read"
    /\ \E n \in 1..Min(plen, Remaining) :
        /\ strm' = <<strm[1] + n, strm[2]>>
        /\ OnReadOk(n)
    /\ net' = [net EXCEPT !.read = Bump(@)]
    /\ UNCHANGED <<o, options, limit, closed, sent, relErr, offset0, budget, down,
                   opened, released, readErrs>>

\* The read of the for loop: the stream ends, with its last bytes or with none.
LoopReadEOF ==
    /\ pc = "read"
    /\ down # "read"
    /\ Remaining <= plen
    /\ strm' = <<strm[2], strm[2]>>
    /\ OnReadEOF(Remaining)
    /\ net' = [net EXCEPT !.read = Bump(@)]
    /\ UNCHANGED <<o, options, limit, closed, sent, relErr, offset0, budget, down,
                   opened, released, readErrs>>

\* The read of the for loop: the stream fails after n >= 0 bytes.
LoopReadFail ==
    /\ pc = "read"
    /\ down = "read" \/ (down # "read" /\ budget > 0)
    /\ \E n \in 0..(IF down = "read" THEN 0 ELSE Min(plen, Remaining)) :
        /\ strm' = <<strm[1] + n, strm[2]>>
        /\ OnReadError(n)
    /\ net' = [net EXCEPT !.read = Bump(@)]
    /\ budget' = (IF down = "read" THEN budget ELSE budget - 1)
    /\ readErrs' = CountUp(readErrs)
    /\ UNCHANGED <<o, options, limit, closed, sent, relErr, offset0, down,
                   opened, released>>

\* -------------------------------------------------------- hardReader.Close

\* Close returning the release error before it clears the reader.
CloseOpenEarlyReturn(e) ==
    IF rc # "nil" /\ e # NoErr
    THEN /\ relErr' = e
         /\ released' = CountUp(released)
         /\ net' = [NoCalls EXCEPT !.close = 1]
         /\ Return("Close", 0, e)
         /\ UNCHANGED <<rc, o, closed>>
    ELSE /\ IF rc # "nil"
            THEN /\ relErr' = e
                 /\ released' = CountUp(released)
                 /\ net' = [NoCalls EXCEPT !.close = 1]
                 /\ Return("Close", 0, e)
            ELSE /\ e = NoErr
                 /\ net' = NoCalls
                 /\ Return("Close", 0, NoErr)
                 /\ UNCHANGED <<relErr, released>>
         /\ rc' = "nil"
         /\ o' = "nil"
         /\ closed' = TRUE

\* Close clearing the reader without releasing the handle it holds.
CloseOpenNoRelease(e) ==
    /\ e = NoErr
    /\ net' = NoCalls
    /\ Return("Close", 0, NoErr)
    /\ UNCHANGED <<relErr, released>>
    /\ rc' = "nil"
    /\ o' = "nil"
    /\ closed' = TRUE

\* The body of Close on a reader that is not closed; e is what the release of
\* the live handle reports.
CloseOpen(e) ==
    /\ IF rc # "nil"
       THEN /\ relErr' = e
            /\ released' = CountUp(released)
            /\ net' = [NoCalls EXCEPT !.close = 1]
            /\ Return("Close", 0, e)
       ELSE /\ e = NoErr
            /\ net' = NoCalls
            /\ Return("Close", 0, NoErr)
            /\ UNCHANGED <<relErr, released>>
    /\ rc' = "nil"
    /\ o' = "nil"
    /\ closed' = TRUE

\* Close without the test of closed: a second Close runs the body again.
CloseNoGuard ==
    /\ pc = "idle"
    /\ \E e \in {NoErr, ErrRemote} : CloseOpen(e)
    /\ UNCHANGED <<options, offset, limit, eofReached, strm, sent, delivered,
                   offset0, budget, down, opened, readErrs>>

Close ==
    /\ pc = "idle"
    /\ IF closed
       THEN /\ net' = NoCalls
            /\ Return("Close", 0, ErrorFileClosed)
            /\ UNCHANGED <<o, rc, closed, relErr, released>>
       ELSE \E e \in {NoErr, ErrRemote} : CloseOpen(e)
    /\ UNCHANGED <<options, offset, limit, eofReached, strm, sent, delivered,
                   offset0, budget, down, opened, readErrs>>

\* -------------------------------------------------------------- the remote

\* The remote fails for good while a Read is in its loop: from now on every
\* open fails ("open"), or every open succeeds and every read fails with no
\* bytes ("read").
GoDown(m) ==
    /\ pc \in {"loop", "read"}
    /\ down = "none"
    /\ down' = m
    /\ UNCHANGED <<pc, reader, plen, strm, sent, net, ret, relErr, delivered,
                   offset0, budget, opened, released, readErrs>>

\* ------------------------------------------- Close from a second thread

\* Close called by another thread while a Read is inside its for loop. The
\* reader has no lock: Close runs as it does between calls, and its result
\* goes to the thread that called it, not to the Read.
CloseDuringRead ==
    /\ pc \in {"loop", "read"}
    /\ IF closed
       THEN UNCHANGED <<o, rc, closed, relErr, released>>
       ELSE /\ IF rc # "nil"
               THEN /\ \E e \in {NoErr, ErrRemote} : relErr' = e
                    /\ released' = CountUp(released)
               ELSE UNCHANGED <<relErr, released>>
            /\ rc' = "nil"
            /\ o' = "nil"
            /\ closed' = TRUE
    /\ UNCHANGED <<pc, plen, ret, net, options, offset, limit, eofReached, strm,
                   sent, delivered, offset0, budget, down, opened, readErrs>>

\* After such a Close the fields the loop reads are written without
\* synchronization: the Read sees them cleared, which is the two steps below,
\* or still sees the values from before, which is the steps of the loop above.

\* r.o.Open called on the reference Close has cleared.
OpenOnNil ==
    /\ pc = "loop" /\ NeedsOpen
    /\ o = "nil"
    /\ pc' = "panic"
    /\ UNCHANGED <<reader, plen, net, ret, delivered, offset0, remote>>

\* r.rc.Read called on the handle Close has cleared.
ReadOnNil ==
    /\ pc = "read"
    /\ rc = "nil"
    /\ pc' = "panic"
    /\ UNCHANGED <<reader, plen, net, ret, delivered, offset0, remote>>

\* ---------------------------------------------------------- specifications

LoopStep == LoopOpenFail \/ LoopOpenOk \/ LoopReadOk \/ LoopReadEOF \/ LoopReadFail

Next ==
    \/ CallOpen
    \/ \E L \in 1..MaxBuf : Read(L)
    \/ LoopOpenFail
    \/ LoopOpenOk
    \/ LoopReadOk
    \/ LoopReadEOF
    \/ LoopReadFail
    \/ Close
    \/ \E m \in {"open", "read"} : GoDown(m)

Spec == Init /\ [][Next]_vars

\* The thread inside Read keeps running, and the caller keeps calling Read.
LiveSpec ==
    /\ Init
    /\ [][Next]_vars
    /\ WF_vars(LoopStep)
    /\ WF_vars(\E L \in 1..MaxBuf : Read(L))

\* Read and Close called from two threads.
ConcNext ==
    \/ Next
    \/ CloseDuringRead
    \/ OpenOnNil
    \/ ReadOnNil

ConcSpec == Init /\ [][ConcNext]_vars

\* ------------------------------------------------------------------ claims

\* The last call that returned was a Read that reported end of stream.
ReadReturnedEOF == ret.op = "Read" /\ ret.err = EOF

\* The bytes of the window the reader was constructed for.
Window == Bytes(offset0, IF limit = Unbounded THEN ObjSize ELSE limit)

\* C1: when a Read has reported EndOfStream, the bytes the Read calls returned,
\* concatenated, are the object's bytes in [offset, limit), or from offset to
\* the end of the object when the limit is unbounded.
C1_DeliversWindow == ReadReturnedEOF => delivered = Window

\* C2: a Read that returns gives no error, EndOfStream or ClosedStream, never
\* the error of an underlying open or read.
C2_ReadErrors == ret.op = "Read" => ret.err \in {NoErr, EOF, ErrorFileClosed}

C2_Witness ==
    /\ ret = Returned("Read", 1, NoErr)
    /\ budget = 0
    /\ rc = "nil"
    /\ net.open >= 2

\* C3: a Read that returns EndOfStream leaves the end-of-stream flag set, the
\* flag once set stays set, and a Read on an open reader whose flag is set
\* returns (0, EndOfStream) with no open or read on the remote and the offset
\* as it was.
C3_EofSticky ==
    [][/\ ReadReturnedEOF' => eofReached'
       /\ eofReached => eofReached'
       /\ (eofReached /\ ~closed /\ \E L \in 1..MaxBuf : Read(L))
            => /\ ret' = Returned("Read", 0, EOF)
               /\ pc' = "idle"
               /\ net' = NoCalls
               /\ offset' = offset
               /\ strm' = strm /\ sent' = sent]_vars

C3_Witness ==
    /\ limit = Unbounded
    /\ ret = Returned("Read", 0, EOF)
    /\ net = NoCalls
    /\ eofReached /\ ~closed
    /\ Len(delivered) > 0

\* C4: in every reachable state of a reader with a bounded limit that has
\* not reached end of stream, offset <= limit. The readers taken are those
\* constructed with offset <= limit, so that a violation is one that Read
\* calls produce.
C4_OffsetWithinLimit ==
    (pc # "new" /\ limit # Unbounded /\ ~eofReached /\ offset0 <= limit) => offset <= limit

\* C5: a Read on an open reader with a bounded limit <= offset sets the
\* end-of-stream flag and returns (0, EndOfStream) with no open or read on the
\* remote, with or without a live handle.
C5_ExhaustedWindow ==
    [][(~closed /\ limit # Unbounded /\ limit <= offset /\ \E L \in 1..MaxBuf : Read(L))
         => /\ eofReached'
            /\ ret' = Returned("Read", 0, EOF)
            /\ pc' = "idle"
            /\ net' = NoCalls
            /\ rc' = rc /\ strm' = strm /\ sent' = sent]_vars

C5_Witness ==
    /\ 0 < offset0 /\ offset0 < limit /\ offset = limit
    /\ rc = "live"
    /\ eofReached /\ ~closed
    /\ ret = Returned("Read", 0, EOF)
    /\ net = NoCalls

\* C6: with a remote that fails only finitely often (it never fails for good)
\* every Read call returns, and the Read calls come to report EndOfStream
\* (unless the caller closes the reader first).
C6_EventuallyEOF ==
    /\ (pc \in {"loop", "read"}) ~> (pc = "idle" \/ down # "none")
    /\ (pc = "idle") ~> (down # "none" \/ closed \/ ReadReturnedEOF)

C6_Witness ==
    /\ ReadReturnedEOF
    /\ down = "none" /\ budget = 0
    /\ ~closed
    /\ delivered = Window /\ Len(delivered) = ObjSize

\* C7: once every open fails, a Read in its loop stays in the loop, returns
\* nothing to its caller and goes on opening (the count of opens of the call
\* reaches any bound); the same when every open succeeds and every read fails
\* with no bytes.
C7_NeverReturns ==
    /\ [][(down = "open" /\ pc = "loop") => (pc' = "loop" /\ rc' = "nil" /\ ret' = ret)]_vars
    /\ [][(down = "read" /\ pc \in {"loop", "read"})
            => (pc' \in {"loop", "read"} /\ ret' = ret /\ offset' = offset)]_vars
    /\ (down = "open" /\ pc = "loop") ~> (pc = "loop" /\ net.open = MaxCount)
    /\ (down = "read" /\ pc \in {"loop", "read"})
         ~> (pc \in {"loop", "read"} /\ net.open = MaxCount /\ net.read = MaxCount)

C7_Witness ==
    /\ down = "open" /\ pc = "loop"
    /\ net.open = MaxCount
    /\ ret.op = "Open"

\* An open of the for loop, failing or not.
OpenAttempt == LoopOpenFail \/ LoopOpenOk

\* C8: the options of an open are the passthrough options alone at offset 0
\* with no limit, followed by one seek to the offset at offset > 0 with no
\* limit, followed by one range [offset, limit) at offset > 0 with a limit;
\* never more than one option is added and the passthrough options come first,
\* all and in order.
C8_OptionDerivation ==
    [][OpenAttempt =>
         /\ (offset = 0 /\ limit = Unbounded) => sent' = options
         /\ (offset > 0 /\ limit = Unbounded) => sent' = options \o <<SeekOption(offset)>>
         /\ (offset > 0 /\ limit # Unbounded)
                => sent' = options \o <<RangeOption(offset, limit)>>
         /\ Len(sent') \in {Len(options), Len(options) + 1}
         /\ SubSeq(sent', 1, Len(options)) = options]_vars

C8_Witness ==
    /\ pc = "read"
    /\ Len(options) = 1
    /\ offset > 0 /\ limit > offset
    /\ sent = <<options[1], RangeOption(offset, limit)>>

\* C9: at offset 0 with a bounded limit the options of an open are the
\* passthrough options alone, the stream the remote opens is the whole
\* object, and Read hands on what the stream delivers.
C9_NoRangeAtZero ==
    [][(OpenAttempt /\ offset = 0 /\ limit # Unbounded) =>
         /\ sent' = options
         /\ LoopOpenOk => strm' = <<0, ObjSize>>]_vars

C9_Witness ==
    /\ offset0 = 0 /\ limit # Unbounded
    /\ sent = options
    /\ ret.op = "Read"
    /\ offset > limit
    /\ Len(delivered) > limit

\* C10: the first Close releases the live handle once if one is held and none
\* otherwise, returns what the release reported (no error without a handle),
\* and leaves the reader closed, with no object and no handle, also when the
\* release failed.
C10_FirstClose ==
    [][(Close /\ ~closed) =>
         /\ closed' /\ o' = "nil" /\ rc' = "nil"
         /\ net' = [NoCalls EXCEPT !.close = IF rc = "live" THEN 1 ELSE 0]
         /\ ret' = Returned("Close", 0, IF rc = "live" THEN relErr' ELSE NoErr)
         /\ rc # "live" => relErr' = relErr
         /\ pc' = "idle"]_vars

C10_Witness ==
    /\ closed /\ o = "nil" /\ rc = "nil"
    /\ ret = Returned("Close", 0, ErrRemote)
    /\ net.close = 1
    /\ Len(delivered) > 0

\* C11: on a closed reader every Read returns (0, ClosedStream) and every Close
\* returns ClosedStream, whether or not end of stream was reached and whatever
\* the first Close's release reported; the call opens, reads and releases
\* nothing on the remote.
C11_ClosedStream ==
    [][/\ (closed /\ \E L \in 1..MaxBuf : Read(L))
            => ret' = Returned("Read", 0, ErrorFileClosed)
       /\ (closed /\ Close) => ret' = Returned("Close", 0, ErrorFileClosed)
       /\ closed => /\ pc' = "idle"
                    /\ net' = NoCalls
                    /\ UNCHANGED remote]_vars

C11_Witness ==
    /\ closed /\ eofReached
    /\ relErr = ErrRemote
    /\ ret = Returned("Read", 0, ErrorFileClosed)
    /\ net = NoCalls

\* C12: Object.Open returns a reader and no error without any call on the
\* remote: the reader has no live handle, eofReached = false and closed =
\* false; an open on the remote is made only by a Read in its loop.
C12_OpenIsLazy ==
    [][/\ CallOpen => /\ ret' = Returned("Open", 0, NoErr)
                      /\ o' = "obj" /\ rc' = "nil"
                      /\ ~eofReached' /\ ~closed'
                      /\ net' = NoCalls
                      /\ UNCHANGED remote
       /\ (net'.open > net.open \/ sent' # sent) => (pc = "loop" /\ ret.op \in {"Open", "Read"})]_vars

C12_Witness ==
    /\ pc = "idle" /\ ret.op = "Open"
    /\ rc = "nil" /\ ~eofReached /\ ~closed
    /\ offset > 0 /\ limit > offset /\ Len(options) = 0
    /\ net = NoCalls /\ sent = <<>>

\* C13: the options of every open begin with the stored passthrough options,
\* all and in order, and the stored passthrough options are the same after
\* every step of the reader's life.
C13_Passthrough ==
    [][/\ OpenAttempt => /\ Len(sent') >= Len(options)
                         /\ SubSeq(sent', 1, Len(options)) = options
       /\ pc # "new" => options' = options]_vars

C13_Witness ==
    /\ Len(options) = 2
    /\ Len(delivered) > 0
    /\ pc = "read" /\ net.open = 2
    /\ sent = options \o <<SeekOption(offset)>>

\* C14: every open of the loop, the first and every reopen, is made with the
\* options derived from the offset of that moment and the limit; that offset
\* is the offset of construction plus the bytes delivered so far, and it is
\* where the stream the remote opens starts.
C14_OpenAtCurrentOffset ==
    [][OpenAttempt =>
         /\ offset = offset0 + Len(delivered)
         /\ sent' = (IF offset = 0 THEN options
                     ELSE IF limit = Unbounded THEN options \o <<SeekOption(offset)>>
                     ELSE options \o <<RangeOption(offset, limit)>>)
         /\ LoopOpenOk => strm'[1] = Min(offset, ObjSize)]_vars

C14_Witness ==
    /\ pc = "read"
    /\ offset0 > 0
    /\ Len(delivered) > 0
    /\ sent = options \o <<RangeOption(offset0 + Len(delivered), limit)>>

\* C15: between calls the offset is the offset of construction plus the
\* number of bytes the Read calls have returned so far.
C15_OffsetCountsDelivered == pc = "idle" => offset = offset0 + Len(delivered)

\* The bytes an underlying read of this step delivered.
StepBytes == strm'[1] - strm[1]

\* C16: a failed underlying read drops the handle; with n > 0 bytes the offset
\* advances by n and the call returns (n, no error); with none the call does
\* not return, the offset stays, and the next step of the call is an open at
\* that offset.
C16_ReadError ==
    [][/\ LoopReadFail =>
            /\ rc' = "nil"
            /\ IF StepBytes > 0
               THEN /\ offset' = offset + StepBytes
                    /\ ret' = Returned("Read", StepBytes, NoErr)
                    /\ pc' = "idle"
               ELSE /\ offset' = offset
                    /\ ret' = ret
                    /\ pc' = "loop"
       /\ (pc = "loop" /\ down' = down) =>
            /\ net'.open = Bump(net.open)
            /\ offset' = offset
            /\ sent' = (IF offset = 0 THEN options
                        ELSE IF limit = Unbounded THEN options \o <<SeekOption(offset)>>
                        ELSE options \o <<RangeOption(offset, limit)>>)]_vars

C16_Witness ==
    /\ pc = "idle"
    /\ ret = Returned("Read", 1, NoErr)
    /\ rc = "nil"
    /\ net.read = 2 /\ net.open = 2
    /\ offset = offset0 + 1

\* C17: when the underlying read signals end of data with n >= 0 bytes, Read
\* sets the end-of-stream flag and returns (n, EndOfStream) in that call,
\* handing the n bytes to the caller; the handle stays live until Close.
C17_ReadEOF ==
    [][/\ LoopReadEOF =>
            /\ eofReached'
            /\ ret' = Returned("Read", Remaining, EOF)
            /\ delivered' = delivered \o Bytes(strm[1], strm[2])
            /\ pc' = "idle"
            /\ rc' = "live"
       /\ (eofReached /\ rc = "live" /\ rc' # "live") => (Close /\ closed')]_vars

C17_Witness ==
    /\ ret = Returned("Read", 2, EOF)
    /\ eofReached /\ rc = "live" /\ ~closed
    /\ Len(delivered) = 2

\* C18: after construction the offset never decreases and the limit never
\* changes.
C18_OffsetMonotone == [][pc # "new" => (offset' >= offset /\ limit' = limit)]_vars

C18_Witness ==
    /\ closed
    /\ limit # Unbounded
    /\ offset = offset0 + 2

\* C19: the handle is null after every failed open and after every failed
\* read; a Read that returns from its loop leaves a live handle exactly when
\* its last underlying read succeeded or signalled end of data.
C19_HandleAfterFailure ==
    [][/\ LoopOpenFail => rc' = "nil"
       /\ LoopReadFail => rc' = "nil"
       /\ (pc = "read" /\ pc' = "idle") => (rc' = "live" <=> (LoopReadOk \/ LoopReadEOF))]_vars

C19_Witness ==
    /\ pc = "idle" /\ ~closed
    /\ ret = Returned("Read", 2, NoErr)
    /\ rc = "nil"
    /\ budget = MaxFail - 1

\* C20: on a closed reader no call changes a field of the reader.
C20_ClosedFrame == [][closed => UNCHANGED reader]_vars

C20_Witness ==
    /\ closed /\ ~eofReached
    /\ limit # Unbounded /\ limit <= offset
    /\ ret = Returned("Read", 0, ErrorFileClosed)

\* C21: the release of a handle is invoked only by Close on a reader that is
\* not closed, on the handle live at that moment; a handle dropped after a read
\* error is not released; at most one handle is ever released; and once the
\* reader is closed, the handles opened and never released are as many as the
\* read errors other than end of data that Read absorbed.
C21_ReleaseOnlyByClose ==
    /\ [](released <= 1)
    /\ [](closed => opened - released = readErrs)
    /\ [][/\ (released' # released) =>
              (Close /\ ~closed /\ rc = "live" /\ released' = released + 1)
          /\ LoopReadFail => (rc' = "nil" /\ released' = released)]_vars

C21_Witness ==
    /\ closed
    /\ released = 1
    /\ readErrs = 2
    /\ opened = 3

\* C22: an open is attempted only while the reader holds no handle; the handle
\* of a successful open stays the reader's handle, over Read calls, until a
\* failed read drops it or Close releases it; the successful opens are at most
\* one more than the absorbed read errors; and the handles opened and neither
\* dropped nor released are the one the reader holds, or none.
C22_OpenOnlyWithoutHandle ==
    /\ [](opened <= 1 + readErrs)
    /\ [](opened < MaxHandles =>
            opened - readErrs - released = (IF rc = "live" THEN 1 ELSE 0))
    /\ [][/\ OpenAttempt => rc = "nil"
          /\ (rc = "live" /\ rc' = "live") => (opened' = opened /\ strm'[2] = strm[2])
          /\ (rc = "live" /\ rc' # "live") => (LoopReadFail \/ (Close /\ ~closed))]_vars

C22_Witness ==
    /\ pc = "idle" /\ rc = "live"
    /\ opened = 1 /\ readErrs = 0
    /\ Len(delivered) = 2
    /\ ret = Returned("Read", 1, NoErr)

\* The reader was constructed for a non-empty window [offset0, limit) of the object.
RangeReader == limit # Unbounded /\ offset0 < limit /\ limit <= ObjSize

\* C23: for a range option that selects a non-empty window [S, E) of the
\* object, Object.Open constructs the reader with offset = S and limit = E;
\* the Read calls of such a reader do not report EndOfStream before a byte has
\* been delivered; and the stream its first open obtains from the remote is
\* the window [S, E).
C23_RangeWindow ==
    /\ [][\A S \in Positions, E \in Positions :
            (S < E /\ Open(<<RangeOption(S, E)>>)) => (offset' = S /\ limit' = E)]_vars
    /\ []((RangeReader /\ ReadReturnedEOF) => delivered # <<>>)
    /\ [][(RangeReader /\ LoopOpenOk /\ delivered = <<>>) =>
            strm' = <<offset0, limit>>]_vars

\* C24: a Close that runs while a Read is inside its retry loop leaves that
\* Read where it is; a Read that has entered its loop never returns
\* ClosedStream; once the reader is closed, the open the loop makes next is on
\* the object reference Close has cleared; and a loop whose opens all fail
\* does not return after the Close.
C24_CloseDoesNotStopRead ==
    /\ [][CloseDuringRead => (pc' = pc /\ plen' = plen /\ ret' = ret)]_vars
    /\ [][(pc \in {"loop", "read"} /\ pc' = "idle") => ret'.err # ErrorFileClosed]_vars
    /\ []((closed /\ pc = "loop") => (o = "nil" /\ ENABLED OpenOnNil))
    /\ [][(closed /\ pc = "loop" /\ down = "open") => pc' \in {"loop", "panic"}]_vars

C24_Witness ==
    /\ pc = "panic"
    /\ closed /\ o = "nil"
    /\ down = "open"
    /\ net.open >= 2
    /\ ret.err # ErrorFileClosed

====
